---- MODULE Spec2Model ----
(***************************************************************************)
(* A model of simpletimer.TicToc (src/simpletimer.py).                     *)
(*                                                                         *)
(* The timer object is start_time / end_time (attributes that are present  *)
(* or absent), its message template _msg and its barrier callable.  The    *)
(* environment is the wall clock read by time.time(), the barrier callable *)
(* and standard output.  Each method is a sequence of steps, one per       *)
(* statement that touches the object or the environment, so that the       *)
(* clock can advance (and a barrier can block) between the statements of   *)
(* one call.                                                               *)
(*                                                                         *)
(* Time is counted in ticks of Unit microseconds.  The clock is taken to   *)
(* be non-decreasing between two reads, the normal behaviour of            *)
(* time.time().                                                            *)
(***************************************************************************)
EXTENDS Integers, Sequences, FiniteSets, TLC

\* ------------------------------------------------------------------ bounds
MaxTime == 2
MaxOut == 2
Unit == 400
\* the two-thread specification has its own, smaller, clock and output caps
RaceMaxTime == 1
RaceMaxOut == 1

\* ------------------------------------------------------------- the threads
Main == "main"
Other == "other"
Threads == {Main, Other}

\* An attribute that is absent: hasattr(self, ...) is False.
Absent == -1

\* --------------------------------------------------------------- templates
Lit(s) == [kind |-> "lit", text |-> s, width |-> 0, prec |-> 0]
Fld(w, p) == [kind |-> "fld", text |-> "elapsed", width |-> w, prec |-> p]

\* 'Elapsed time is {elapsed:f} seconds.\n'  ({:f} is six decimals, no padding)
default_msg == << Lit("Elapsed time is "), Fld(0, 6), Lit(" seconds."), Lit("\n") >>
\* "{elapsed:7.3f}\n"
custom_msg == << Fld(7, 3), Lit("\n") >>
\* "" : a falsy template
empty_msg == << >>
Templates == {default_msg, custom_msg, empty_msg}

\* -------------------------------------------------------------- formatting
DigitChars == << "0", "1", "2", "3", "4", "5", "6", "7", "8", "9" >>

RECURSIVE Pow10(_)
Pow10(k) == IF k = 0 THEN 1 ELSE 10 * Pow10(k - 1)

RECURSIVE IntDigits(_)
IntDigits(n) ==
    IF n < 10 THEN << DigitChars[n + 1] >>
    ELSE IntDigits(n \div 10) \o << DigitChars[(n % 10) + 1] >>

RECURSIVE FracDigits(_, _)
FracDigits(n, p) ==
    IF p = 0 THEN << >>
    ELSE FracDigits(n \div 10, p - 1) \o << DigitChars[(n % 10) + 1] >>

RECURSIVE Spaces(_)
Spaces(k) == IF k <= 0 THEN << >> ELSE << " " >> \o Spaces(k - 1)

\* format(x, "w.pf") of x = ticks * Unit microseconds: sign, integer part,
\* point, p decimals (rounded to nearest), right-aligned in w columns.
FormatFixed(ticks, w, p) ==
    LET us     == IF ticks < 0 THEN (0 - ticks) * Unit ELSE ticks * Unit
        d      == Pow10(6 - p)
        scaled == (us + (d \div 2)) \div d
        sign   == IF ticks < 0 THEN << "-" >> ELSE << >>
        body   == sign \o IntDigits(scaled \div Pow10(p))
                       \o (IF p > 0 THEN << "." >> ELSE << >>)
                       \o FracDigits(scaled % Pow10(p), p)
    IN  Spaces(w - Len(body)) \o body

RECURSIVE Format(_, _)
\* msg.format(elapsed=e): the text as a sequence of pieces
Format(msg, e) ==
    IF msg = << >> THEN << >>
    ELSE (IF Head(msg).kind = "lit" THEN << Head(msg).text >>
          ELSE FormatFixed(e, Head(msg).width, Head(msg).prec))
         \o Format(Tail(msg), e)

RECURSIVE RStripNewline(_)
\* s.rstrip('\n')
RStripNewline(s) ==
    IF s # << >> /\ s[Len(s)] = "\n" THEN RStripNewline(SubSeq(s, 1, Len(s) - 1))
    ELSE s

NotStartedText == << "Timer not yet started." >>

\* ------------------------------------------------------------------- state
VARIABLES
    start_time,   \* self.start_time, or Absent
    end_time,     \* self.end_time, or Absent
    msg,          \* self._msg
    barrier,      \* self._barrier: "none" (None) or "callable"
    now,          \* the wall clock, what time.time() returns
    out,          \* standard output: the texts printed so far
    th,           \* per thread: position in the running call, last result,
                  \*   with-statement state, and a record of the call
    lastq,        \* the last live elapsed value read in this run of the timer
    tic_samp      \* what time.time() returned to the last tic() that stored it

vars == << start_time, end_time, msg, barrier, now, out, th, lastq, tic_samp >>

Barriers == {"none", "callable"}

\* A thread that has called nothing yet.
\*   pc      position: "idle", or the next statement of tic / toc
\*   op      the call in progress, or the last call made
\*   exc     how the last call ended: "none" (returned), an exception, or
\*           "pending" while it runs
\*   val, text, flag   what the last call returned (number, string, boolean)
\*   scope   the with statement: "outside", "entering", "body", "exiting"
\*   body    how the with block ended: "notrun", "ok", "raised"
\*   wexc    what the last with statement handed to its caller
\*   st0, et0, out0    the timer and the output when the call began
\*   ev      what the call has done so far, in order
\*   samp    what time.time() returned to this call of tic / toc
\*   arg     the value handed to format() by this call of toc
\*   braised the barrier raised in this call
InitThread ==
    [pc |-> "idle", op |-> "none", exc |-> "none",
     val |-> Absent, text |-> << >>, flag |-> FALSE,
     scope |-> "outside", body |-> "notrun", wexc |-> "none",
     st0 |-> Absent, et0 |-> Absent, out0 |-> << >>,
     ev |-> << >>, samp |-> Absent, arg |-> Absent, braised |-> FALSE]

\* TicToc.__init__: no start_time, no end_time; any template, any barrier.
Init ==
    /\ start_time = Absent
    /\ end_time = Absent
    /\ msg \in Templates
    /\ barrier \in Barriers
    /\ now = 0
    /\ out = << >>
    /\ th = [t \in Threads |-> InitThread]
    /\ lastq = Absent
    /\ tic_samp = Absent

\* ---------------------------------------------------------- call and return
\* The thread record when a call of op begins at statement pc.
Begin(r, op, pc) ==
    [r EXCEPT !.pc = pc, !.op = op, !.exc = "pending",
              !.val = Absent, !.text = << >>, !.flag = FALSE,
              !.wexc = "none",
              !.st0 = start_time, !.et0 = end_time, !.out0 = out,
              !.ev = << >>, !.samp = Absent, !.arg = Absent,
              !.braised = FALSE]

\* The thread record when the call returns (e = "none") or raises e.
\* __enter__ returns self once tic() has returned; an exception of tic()
\* leaves the with statement before its block.  __exit__ returns None, so
\* the block's exception is raised again after toc() has returned; an
\* exception of toc() is raised in its place.
Ret(r, e) ==
    LET r1 == [r EXCEPT !.pc = "idle", !.exc = e]
    IN  CASE r.scope = "entering" ->
               [r1 EXCEPT !.scope = IF e = "none" THEN "body" ELSE "outside",
                          !.wexc = e]
          [] r.scope = "exiting" ->
               [r1 EXCEPT !.scope = "outside",
                          !.wexc = IF e # "none" THEN e
                                   ELSE IF r.body = "raised" THEN "BodyError"
                                   ELSE "ok"]
          [] OTHER -> r1

Log(r, e) == [r EXCEPT !.ev = Append(@, e)]

CanCall(t) == th[t].pc = "idle" /\ th[t].scope \in {"outside", "body"}

\* ------------------------------------------------------------------ clock
Tick ==
    /\ now < MaxTime
    /\ now' = now + 1
    /\ UNCHANGED << start_time, end_time, msg, barrier, out, th, lastq, tic_samp >>

\* ------------------------------------------------------------------ reset
\* A reset that forgets the second del: end_time stays.
ResetTimerKeepsEnd ==
    /\ start_time' = Absent
    /\ end_time' = end_time

\* reset(): delete start_time and end_time where present.
ResetTimer ==
    /\ start_time' = Absent
    /\ end_time' = Absent

reset(t) ==
    /\ CanCall(t)
    /\ ResetTimer
    /\ lastq' = Absent
    /\ th' = [th EXCEPT ![t] = Ret(Log(Begin(@, "reset", "idle"), "reset"), "none")]
    /\ UNCHANGED << msg, barrier, now, out, tic_samp >>

\* -------------------------------------------------------------------- tic
call_tic(t) ==
    /\ CanCall(t)
    /\ th' = [th EXCEPT ![t] = Begin(@, "tic", "tic_reset")]
    /\ UNCHANGED << start_time, end_time, msg, barrier, now, out, lastq, tic_samp >>

\* __enter__: self.tic()
with_enter(t) ==
    /\ th[t].pc = "idle"
    /\ th[t].scope = "outside"
    /\ th' = [th EXCEPT ![t] =
                [Begin(@, "tic", "tic_reset") EXCEPT !.scope = "entering",
                                                     !.body = "notrun"]]
    /\ UNCHANGED << start_time, end_time, msg, barrier, now, out, lastq, tic_samp >>

\* A tic that does not reset first.
tic_reset_skip(t) ==
    /\ th[t].pc = "tic_reset"
    /\ th' = [th EXCEPT ![t] = [@ EXCEPT !.pc = "tic_barrier"]]
    /\ UNCHANGED << start_time, end_time, msg, barrier, now, out, lastq, tic_samp >>

\* self.reset()
tic_reset(t) ==
    /\ th[t].pc = "tic_reset"
    /\ ResetTimer
    /\ lastq' = Absent
    /\ th' = [th EXCEPT ![t] = [Log(@, "reset") EXCEPT !.pc = "tic_barrier"]]
    /\ UNCHANGED << msg, barrier, now, out, tic_samp >>

\* A barrier step that synchronises twice.
invoke_barrier_twice(t, here, next) ==
    /\ th[t].pc = here
    /\ IF barrier = "none"
       THEN th' = [th EXCEPT ![t] = [@ EXCEPT !.pc = next]]
       ELSE \E raises \in BOOLEAN :
              th' = [th EXCEPT ![t] =
                       IF raises
                       THEN Ret([Log(@, "barrier") EXCEPT !.braised = TRUE],
                                "BarrierError")
                       ELSE [Log(Log(@, "barrier"), "barrier") EXCEPT !.pc = next]]
    /\ UNCHANGED << start_time, end_time, msg, barrier, now, out, lastq, tic_samp >>

\* A barrier step that catches what the callable raises and goes on.
invoke_barrier_swallow(t, here, next) ==
    /\ th[t].pc = here
    /\ IF barrier = "none"
       THEN th' = [th EXCEPT ![t] = [@ EXCEPT !.pc = next]]
       ELSE \E raises \in BOOLEAN :
              th' = [th EXCEPT ![t] =
                       [Log(@, "barrier") EXCEPT !.braised = raises, !.pc = next]]
    /\ UNCHANGED << start_time, end_time, msg, barrier, now, out, lastq, tic_samp >>

\* if self._barrier is not None: self._barrier()
\* The callable returns or raises; what it raises is not caught.
invoke_barrier(t, here, next) ==
    /\ th[t].pc = here
    /\ IF barrier = "none"
       THEN th' = [th EXCEPT ![t] = [@ EXCEPT !.pc = next]]
       ELSE \E raises \in BOOLEAN :
              th' = [th EXCEPT ![t] =
                       IF raises
                       THEN Ret([Log(@, "barrier") EXCEPT !.braised = TRUE],
                                "BarrierError")
                       ELSE [Log(@, "barrier") EXCEPT !.pc = next]]
    /\ UNCHANGED << start_time, end_time, msg, barrier, now, out, lastq, tic_samp >>

tic_barrier(t) == invoke_barrier(t, "tic_barrier", "tic_sample")

\* A tic that resumes a started timer: the start_time it had is put back.
tic_sample_resume(t) ==
    /\ th[t].pc = "tic_sample"
    /\ start_time' = IF th[t].st0 # Absent THEN th[t].st0 ELSE now
    /\ tic_samp' = now
    /\ th' = [th EXCEPT ![t] = Ret([Log(@, "time") EXCEPT !.samp = now], "none")]
    /\ UNCHANGED << end_time, msg, barrier, now, out, lastq >>

\* self.start_time = time.time()
tic_sample(t) ==
    /\ th[t].pc = "tic_sample"
    /\ start_time' = now
    /\ tic_samp' = now
    /\ th' = [th EXCEPT ![t] = Ret([Log(@, "time") EXCEPT !.samp = now], "none")]
    /\ UNCHANGED << end_time, msg, barrier, now, out, lastq >>

\* ---------------------------------------------------------------- elapsed
\* An elapsed whose live branch subtracts the wrong way round.
ElapsedOfSwapped(st, et, clk) ==
    IF st = Absent THEN [exc |-> "RuntimeError", val |-> Absent]
    ELSE IF et # Absent THEN [exc |-> "none", val |-> et - st]
    ELSE [exc |-> "none", val |-> st - clk]

\* The elapsed property, read when the clock shows clk.
ElapsedOf(st, et, clk) ==
    IF st = Absent THEN [exc |-> "RuntimeError", val |-> Absent]
    ELSE IF et # Absent THEN [exc |-> "none", val |-> et - st]
    ELSE [exc |-> "none", val |-> clk - st]

\* What a read of elapsed leaves in lastq: a live value is remembered.
Live(e) == IF e.exc = "none" /\ end_time = Absent THEN e.val ELSE lastq

\* A __float__ that always measures against the clock.
FloatOfLive(st, et, clk) ==
    IF st = Absent THEN [exc |-> "RuntimeError", val |-> Absent]
    ELSE [exc |-> "none", val |-> clk - st]

\* __float__: return self.elapsed
FloatOf(st, et, clk) == ElapsedOf(st, et, clk)

\* A __str__ that renders the timer's own template.
StrOfConfigured(st, et, clk) ==
    IF st # Absent
    THEN RStripNewline(Format(msg, ElapsedOf(st, et, clk).val))
    ELSE NotStartedText

\* __str__: the default message with elapsed, newline stripped, or the
\* "not yet started" text.
StrOf(st, et, clk) ==
    IF st # Absent
    THEN RStripNewline(Format(default_msg, ElapsedOf(st, et, clk).val))
    ELSE NotStartedText

\* An elapsed that memoises: the first read of a Running timer stores the
\* clock in end_time.
elapsed_memo(t) ==
    /\ CanCall(t)
    /\ LET e == ElapsedOf(start_time, end_time, now)
       IN  /\ th' = [th EXCEPT ![t] =
                       Ret([Begin(@, "elapsed", "idle") EXCEPT !.val = e.val], e.exc)]
           /\ lastq' = Live(e)
           /\ end_time' = IF start_time # Absent /\ end_time = Absent
                          THEN now ELSE end_time
    /\ UNCHANGED << start_time, msg, barrier, now, out, tic_samp >>

elapsed(t) ==
    /\ CanCall(t)
    /\ LET e == ElapsedOf(start_time, end_time, now)
       IN  /\ th' = [th EXCEPT ![t] =
                       Ret([Begin(@, "elapsed", "idle") EXCEPT !.val = e.val], e.exc)]
           /\ lastq' = Live(e)
    /\ UNCHANGED << start_time, end_time, msg, barrier, now, out, tic_samp >>

to_float(t) ==
    /\ CanCall(t)
    /\ LET e == FloatOf(start_time, end_time, now)
       IN  /\ th' = [th EXCEPT ![t] =
                       Ret([Begin(@, "float", "idle") EXCEPT !.val = e.val], e.exc)]
           /\ lastq' = Live(e)
    /\ UNCHANGED << start_time, end_time, msg, barrier, now, out, tic_samp >>

to_str(t) ==
    /\ CanCall(t)
    /\ th' = [th EXCEPT ![t] =
                Ret([Begin(@, "str", "idle") EXCEPT
                        !.text = StrOf(start_time, end_time, now)], "none")]
    /\ lastq' = IF start_time # Absent
                THEN Live(ElapsedOf(start_time, end_time, now)) ELSE lastq
    /\ UNCHANGED << start_time, end_time, msg, barrier, now, out, tic_samp >>

\* is_started: hasattr(self, 'start_time')
IsStarted == start_time # Absent
\* is_ended: hasattr(self, 'end_time')
IsEnded == end_time # Absent

is_started(t) ==
    /\ CanCall(t)
    /\ th' = [th EXCEPT ![t] =
                Ret([Begin(@, "is_started", "idle") EXCEPT !.flag = IsStarted], "none")]
    /\ UNCHANGED << start_time, end_time, msg, barrier, now, out, lastq, tic_samp >>

is_ended(t) ==
    /\ CanCall(t)
    /\ th' = [th EXCEPT ![t] =
                Ret([Begin(@, "is_ended", "idle") EXCEPT !.flag = IsEnded], "none")]
    /\ UNCHANGED << start_time, end_time, msg, barrier, now, out, lastq, tic_samp >>

\* -------------------------------------------------------------------- toc
\* Standard output is kept to MaxOut texts: no call of toc begins beyond it.
call_toc(t) ==
    /\ CanCall(t)
    /\ Len(out) < MaxOut
    /\ th' = [th EXCEPT ![t] = Begin(@, "toc", "toc_check")]
    /\ UNCHANGED << start_time, end_time, msg, barrier, now, out, lastq, tic_samp >>

\* An __exit__ that stops the timer only when the block ended normally.
with_exit_skips(t) ==
    /\ th[t].pc = "idle"
    /\ th[t].scope = "body"
    /\ Len(out) < MaxOut
    /\ \E raised \in BOOLEAN :
         th' = [th EXCEPT ![t] =
                  IF raised
                  THEN [@ EXCEPT !.scope = "outside", !.body = "raised",
                                 !.wexc = "BodyError"]
                  ELSE [Begin(@, "toc", "toc_check") EXCEPT
                           !.scope = "exiting", !.body = "ok"]]
    /\ UNCHANGED << start_time, end_time, msg, barrier, now, out, lastq, tic_samp >>

\* The with block ends, normally or with an exception (raised), and
\* __exit__ runs: self.toc()
with_exit(t) ==
    /\ th[t].pc = "idle"
    /\ th[t].scope = "body"
    /\ Len(out) < MaxOut
    /\ \E raised \in BOOLEAN :
         th' = [th EXCEPT ![t] =
                  [Begin(@, "toc", "toc_check") EXCEPT
                      !.scope = "exiting",
                      !.body = IF raised THEN "raised" ELSE "ok"]]
    /\ UNCHANGED << start_time, end_time, msg, barrier, now, out, lastq, tic_samp >>

\* A toc that takes its sample as soon as the check has passed, before the
\* barrier.
toc_check_samples_early(t) ==
    /\ th[t].pc = "toc_check"
    /\ th' = [th EXCEPT ![t] =
                IF start_time = Absent THEN Ret(@, "RuntimeError")
                ELSE [@ EXCEPT !.pc = "toc_barrier"]]
    /\ end_time' = IF start_time = Absent THEN end_time ELSE now
    /\ UNCHANGED << start_time, msg, barrier, now, out, lastq, tic_samp >>

\* A toc without the is_started check.
toc_check_missing(t) ==
    /\ th[t].pc = "toc_check"
    /\ th' = [th EXCEPT ![t] = [@ EXCEPT !.pc = "toc_barrier"]]
    /\ UNCHANGED << start_time, end_time, msg, barrier, now, out, lastq, tic_samp >>

\* if not self.is_started: raise RuntimeError("Timer not yet started.")
toc_check(t) ==
    /\ th[t].pc = "toc_check"
    /\ th' = [th EXCEPT ![t] =
                IF ~IsStarted THEN Ret(@, "RuntimeError")
                ELSE [@ EXCEPT !.pc = "toc_barrier"]]
    /\ UNCHANGED << start_time, end_time, msg, barrier, now, out, lastq, tic_samp >>

toc_barrier(t) == invoke_barrier(t, "toc_barrier", "toc_sample")

\* A toc that keeps the end_time of an earlier toc.
toc_sample_once(t) ==
    /\ th[t].pc = "toc_sample"
    /\ end_time' = IF end_time # Absent THEN end_time ELSE now
    /\ lastq' = Absent
    /\ th' = [th EXCEPT ![t] =
                [Log(@, "time") EXCEPT !.samp = now, !.pc = "toc_print"]]
    /\ UNCHANGED << start_time, msg, barrier, now, out, tic_samp >>

\* self.end_time = time.time()
toc_sample(t) ==
    /\ th[t].pc = "toc_sample"
    /\ end_time' = now
    /\ lastq' = Absent
    /\ th' = [th EXCEPT ![t] =
                [Log(@, "time") EXCEPT !.samp = now, !.pc = "toc_print"]]
    /\ UNCHANGED << start_time, msg, barrier, now, out, tic_samp >>

\* A toc that prints the class's default_msg whatever self._msg is.
toc_print_default(t) ==
    /\ th[t].pc = "toc_print"
    /\ LET e == ElapsedOf(start_time, end_time, now)
       IN  IF e.exc # "none"
           THEN /\ th' = [th EXCEPT ![t] = Ret(@, e.exc)]
                /\ out' = out
           ELSE /\ out' = Append(out, Format(default_msg, e.val))
                /\ th' = [th EXCEPT ![t] =
                            Ret([Log(@, "print") EXCEPT !.arg = e.val], "none")]
    /\ UNCHANGED << start_time, end_time, msg, barrier, now, lastq, tic_samp >>

\* if self._msg: print(self._msg.format(elapsed=self.elapsed), end='')
toc_print(t) ==
    /\ th[t].pc = "toc_print"
    /\ IF msg # empty_msg
       THEN LET e == ElapsedOf(start_time, end_time, now)
            IN  IF e.exc # "none"
                THEN /\ th' = [th EXCEPT ![t] = Ret(@, e.exc)]
                     /\ out' = out
                ELSE /\ out' = Append(out, Format(msg, e.val))
                     /\ th' = [th EXCEPT ![t] =
                                 Ret([Log(@, "print") EXCEPT !.arg = e.val], "none")]
       ELSE /\ th' = [th EXCEPT ![t] = Ret(@, "none")]
            /\ out' = out
    /\ UNCHANGED << start_time, end_time, msg, barrier, now, lastq, tic_samp >>

\* ------------------------------------------------------------ specification
\* One step of thread t.
Step(t) ==
    \/ reset(t)
    \/ call_tic(t)
    \/ with_enter(t)
    \/ tic_reset(t)
    \/ tic_barrier(t)
    \/ tic_sample(t)
    \/ elapsed(t)
    \/ to_float(t)
    \/ to_str(t)
    \/ is_started(t)
    \/ is_ended(t)
    \/ call_toc(t)
    \/ with_exit(t)
    \/ toc_check(t)
    \/ toc_barrier(t)
    \/ toc_sample(t)
    \/ toc_print(t)

\* Single-threaded use: one caller, and the clock.
Next == Tick \/ Step(Main)

Spec == Init /\ [][Next]_vars

\* ------------------------------------------------ the module-level tic, toc
\* _tictoc = TicToc(): the constructor's defaults, default_msg and no barrier.
DefaultInstance == [msg |-> default_msg, barrier |-> "none"]

InitModule ==
    /\ start_time = Absent
    /\ end_time = Absent
    /\ msg = DefaultInstance.msg
    /\ barrier = DefaultInstance.barrier
    /\ now = 0
    /\ out = << >>
    /\ th = [t \in Threads |-> InitThread]
    /\ lastq = Absent
    /\ tic_samp = Absent

\* tic = _tictoc.tic
module_tic(t) == call_tic(t)

\* A toc bound to an instance of its own (toc = TicToc().toc): that timer
\* is never started, so every call is rejected, and _tictoc is not touched.
module_toc_own_instance(t) ==
    /\ CanCall(t)
    /\ Len(out) < MaxOut
    /\ th' = [th EXCEPT ![t] = Ret(Begin(@, "toc", "idle"), "RuntimeError")]
    /\ UNCHANGED << start_time, end_time, msg, barrier, now, out, lastq, tic_samp >>

\* toc = _tictoc.toc
module_toc(t) == call_toc(t)

\* One step of thread t that uses only the module-level functions.
ModuleStep(t) ==
    \/ module_tic(t)
    \/ tic_reset(t)
    \/ tic_barrier(t)
    \/ tic_sample(t)
    \/ module_toc(t)
    \/ toc_check(t)
    \/ toc_barrier(t)
    \/ toc_sample(t)
    \/ toc_print(t)

NextModule == Tick \/ ModuleStep(Main)

SpecModule == InitModule /\ [][NextModule]_vars

\* Two threads call the module-level tic and toc: the statements of their
\* calls interleave in any order.
TickRace == now < RaceMaxTime /\ Tick

RaceStep(t) ==
    \/ module_tic(t)
    \/ tic_reset(t)
    \/ tic_barrier(t)
    \/ tic_sample(t)
    \/ (Len(out) < RaceMaxOut /\ module_toc(t))
    \/ toc_check(t)
    \/ toc_barrier(t)
    \/ toc_sample(t)
    \/ toc_print(t)

NextRace == TickRace \/ RaceStep(Main) \/ RaceStep(Other)

SpecRace == InitModule /\ [][NextRace]_vars

\* =================================================================== claims
Returned(t) == th[t].pc = "idle" /\ th[t].op # "none"

\* C1: a stop(), an elapsed query or a numeric conversion made while the
\* timer is Idle fails with the invalid-state error, returns no value,
\* prints nothing, and leaves the timer Idle.
C1_IdleCallsFail ==
    \A t \in Threads :
        (Returned(t) /\ th[t].op \in {"toc", "elapsed", "float"} /\ th[t].st0 = Absent)
            => /\ th[t].exc = "RuntimeError"
               /\ th[t].val = Absent
               /\ start_time = Absent
               /\ end_time = Absent
               /\ out = th[t].out0

\* A stop() was rejected on a timer that a reset had returned to Idle while
\* the clock had advanced.
C1_Witness ==
    /\ Returned(Main) /\ th[Main].op = "toc" /\ th[Main].exc = "RuntimeError"
    /\ th[Main].st0 = Absent /\ start_time = Absent /\ end_time = Absent
    /\ tic_samp # Absent /\ now > tic_samp

\* C2: start() is never rejected, whatever the state it is called in, and
\* when it returns normally the timer is Running: start_time is the sample
\* this call took and end_time is absent.
C2_StartLeavesRunning ==
    \A t \in Threads :
        (Returned(t) /\ th[t].op = "tic")
            => /\ th[t].exc \in {"none", "BarrierError"}
               /\ th[t].exc = "none" =>
                    /\ th[t].samp # Absent
                    /\ start_time = th[t].samp
                    /\ end_time = Absent

\* start() returned on a timer that was Stopped when it was called.
C2_Witness ==
    /\ Returned(Main) /\ th[Main].op = "tic" /\ th[Main].exc = "none"
    /\ th[Main].st0 # Absent /\ th[Main].et0 # Absent
    /\ start_time > th[Main].et0 /\ end_time = Absent

\* C3 as first stated: a stop() called in Running or Stopped succeeds, sets
\* end_time to the sample it took and leaves start_time as it was.
C3_StopAlwaysSucceeds ==
    \A t \in Threads :
        (Returned(t) /\ th[t].op = "toc" /\ th[t].st0 # Absent)
            => /\ th[t].exc = "none"
               /\ th[t].samp # Absent
               /\ end_time = th[t].samp
               /\ start_time = th[t].st0

\* C3: a stop() called in Running or Stopped is not rejected: it succeeds
\* unless its barrier raises (and always succeeds without a barrier).  When
\* it succeeds the timer is Stopped: end_time is the sample this call took,
\* replacing any earlier end_time, and start_time is as it was.
C3_StopLeavesStopped ==
    \A t \in Threads :
        (Returned(t) /\ th[t].op = "toc" /\ th[t].st0 # Absent)
            => /\ th[t].exc \in {"none", "BarrierError"}
               /\ barrier = "none" => th[t].exc = "none"
               /\ th[t].exc = "none" =>
                    /\ th[t].samp # Absent
                    /\ end_time = th[t].samp
                    /\ start_time = th[t].st0

\* A second stop() without a start() in between replaced a smaller end_time
\* and measured from the same start_time.
C3_Witness ==
    /\ Returned(Main) /\ th[Main].op = "toc" /\ th[Main].exc = "none"
    /\ th[Main].et0 # Absent /\ end_time > th[Main].et0
    /\ start_time = th[Main].st0

\* C4: when a stop() succeeds, the elapsed value of the timer is the sample
\* that stop() took minus the sample taken by the most recent start() that
\* stored one; nothing recorded before that start() enters into it.
C4_RestartIsFullReset ==
    \A t \in Threads :
        (Returned(t) /\ th[t].op = "toc" /\ th[t].exc = "none")
            => /\ tic_samp # Absent
               /\ ElapsedOf(start_time, end_time, now) =
                    [exc |-> "none", val |-> th[t].samp - tic_samp]

\* A stop() succeeded on a Running timer that had reported an earlier
\* measurement: it had been stopped, then started again at a later time.
C4_Witness ==
    /\ Returned(Main) /\ th[Main].op = "toc" /\ th[Main].exc = "none"
    /\ th[Main].et0 = Absent /\ Len(th[Main].out0) >= 1
    /\ tic_samp > 0
    /\ end_time - start_time = th[Main].samp - tic_samp
    /\ end_time > start_time

\* C5: while the timer is Stopped, the elapsed query and the numeric
\* conversion both return end_time - start_time, however far the clock has
\* moved on.
C5_StoppedValueFixed ==
    \A t \in Threads :
        (Returned(t) /\ th[t].op \in {"elapsed", "float"}
                     /\ th[t].st0 # Absent /\ th[t].et0 # Absent)
            => /\ th[t].exc = "none"
               /\ th[t].val = end_time - start_time
               /\ start_time = th[t].st0
               /\ end_time = th[t].et0

\* A numeric conversion on a Stopped timer, made after the clock had moved
\* on from end_time, returned end_time - start_time.
C5_Witness ==
    /\ Returned(Main) /\ th[Main].op = "float" /\ th[Main].exc = "none"
    /\ th[Main].et0 # Absent /\ now > end_time
    /\ th[Main].val = end_time - start_time /\ th[Main].val > 0

\* C6: while the timer is Running, an elapsed query (and a numeric
\* conversion, which reads it) returns the clock at the query minus
\* start_time, and no less than the last value read since the timer was
\* started.
C6_LiveNonDecreasing ==
    [][\A t \in Threads :
          ((elapsed(t) \/ to_float(t)) /\ IsStarted /\ ~IsEnded)
              => /\ th'[t].exc = "none"
                 /\ th'[t].val = now - start_time
                 /\ lastq # Absent => th'[t].val >= lastq]_vars

\* A query on a Running timer returned two ticks: the clock had moved on
\* since start(), and the value read is the live one.
C6_Witness ==
    /\ Returned(Main) /\ th[Main].op = "elapsed" /\ th[Main].exc = "none"
    /\ th[Main].et0 = Absent /\ end_time = Absent
    /\ th[Main].val = lastq /\ th[Main].val >= 2

\* C7: whenever both samples are present, end_time >= start_time, and a
\* query on a Stopped timer never returns a negative value.
C7_EndNotBeforeStart ==
    /\ (IsStarted /\ IsEnded) => end_time >= start_time
    /\ \A t \in Threads :
          (Returned(t) /\ th[t].op \in {"elapsed", "float"}
                       /\ th[t].et0 # Absent /\ th[t].exc = "none")
              => th[t].val >= 0

\* A timer stopped in a second measurement, begun after the first had
\* ended, with no clock tick between start() and stop().
C7_Witness ==
    /\ Returned(Main) /\ th[Main].op = "toc" /\ th[Main].exc = "none"
    /\ th[Main].et0 = Absent /\ Len(th[Main].out0) >= 1
    /\ start_time > 0 /\ end_time = start_time

\* The with statement of thread t has ended after its block had begun.
Left(t) ==
    /\ th[t].pc = "idle" /\ th[t].scope = "outside"
    /\ th[t].wexc # "none" /\ th[t].body # "notrun"

\* What a successful toc() that began with output o leaves on the output.
Reported(o) ==
    IF msg # empty_msg THEN Append(o, Format(msg, end_time - start_time)) ELSE o

\* C8 as first stated: when the block of a with statement raises, stop()
\* records end_time, emits the report if a template is configured, and the
\* block's error reaches the caller.
C8_BlockErrorAlwaysReported ==
    \A t \in Threads :
        (Left(t) /\ th[t].body = "raised")
            => /\ th[t].op = "toc"
               /\ th[t].samp # Absent /\ end_time = th[t].samp
               /\ out = Reported(th[t].out0)
               /\ th[t].wexc = "BodyError"

\* C8: entering the scope runs start() and nothing else, leaving it runs
\* stop() and nothing else, whether the block returned or raised.  When that
\* stop() returns, end_time is the sample it took, the report is emitted if
\* a template is configured, and the block's error (if any) reaches the
\* caller afterwards.  When that stop() raises (its barrier raised, or the
\* block had reset the timer to Idle), no end_time is recorded, nothing is
\* printed, and the error of stop() reaches the caller instead.
C8_ScopeStartsAndStops ==
    \A t \in Threads :
        /\ th[t].scope = "entering" =>
              th[t].op = "tic" /\ th[t].pc \in {"tic_reset", "tic_barrier", "tic_sample"}
        /\ th[t].scope = "exiting" =>
              th[t].op = "toc" /\ th[t].pc \in {"toc_check", "toc_barrier",
                                                 "toc_sample", "toc_print"}
        /\ Left(t) =>
              /\ th[t].op = "toc"
              /\ th[t].exc = "none" =>
                    /\ th[t].samp # Absent /\ end_time = th[t].samp
                    /\ out = Reported(th[t].out0)
                    /\ th[t].wexc = IF th[t].body = "raised" THEN "BodyError" ELSE "ok"
              /\ th[t].exc # "none" =>
                    /\ th[t].wexc = th[t].exc
                    /\ end_time = th[t].et0
                    /\ out = th[t].out0

\* A with statement whose block raised: stop() ran, printed the report, and
\* the block's error reached the caller.
C8_Witness ==
    /\ Left(Main) /\ th[Main].body = "raised" /\ th[Main].op = "toc"
    /\ th[Main].exc = "none" /\ th[Main].wexc = "BodyError"
    /\ msg # empty_msg /\ Len(out) = Len(th[Main].out0) + 1
    /\ end_time = th[Main].samp /\ end_time > start_time

\* C9: a stop() that succeeds prints one report when the template is not
\* empty, after end_time is stored and with end_time - start_time
\* substituted (what an elapsed query then returns), and prints nothing
\* when the template is empty.  A stop() that fails, start(), reset() and
\* the queries print nothing.
C9_OneReportPerStop ==
    \A t \in Threads :
        /\ (Returned(t) /\ th[t].op = "toc" /\ th[t].exc = "none") =>
              /\ out = Reported(th[t].out0)
              /\ msg # empty_msg =>
                    /\ th[t].arg = end_time - start_time
                    /\ ElapsedOf(start_time, end_time, now).val = th[t].arg
                    /\ end_time = th[t].samp
                    /\ Len(th[t].ev) >= 2
                    /\ th[t].ev[Len(th[t].ev) - 1] = "time"
                    /\ th[t].ev[Len(th[t].ev)] = "print"
              /\ msg = empty_msg =>
                    \A i \in 1..Len(th[t].ev) : th[t].ev[i] # "print"
        /\ (th[t].op \notin {"toc", "none"} \/ (Returned(t) /\ th[t].exc # "none")) =>
              /\ out = th[t].out0
              /\ \A i \in 1..Len(th[t].ev) : th[t].ev[i] # "print"

\* A stop() with the custom template printed a second report, of a
\* non-zero elapsed value.
C9_Witness ==
    /\ Returned(Main) /\ th[Main].op = "toc" /\ th[Main].exc = "none"
    /\ msg = custom_msg /\ Len(th[Main].out0) = 1 /\ Len(out) = 2
    /\ th[Main].arg > 0
    /\ out[2] = Format(custom_msg, th[Main].arg)

\* What a finished call may have done, in order, for C10.
TicTrace(e) ==
    IF barrier = "none" THEN e = << "reset", "time" >>
    ELSE e = << "reset", "barrier", "time" >>

TocTrace(e) ==
    IF barrier = "none" THEN e \in {<< "time" >>, << "time", "print" >>}
    ELSE e \in {<< "barrier", "time" >>, << "barrier", "time", "print" >>}

\* C10: with a barrier configured, a start() and a stop() that is not
\* rejected call it exactly once, start() after its reset, both before
\* their time sample; a call whose barrier raises takes no sample.  A
\* rejected stop(), reset() and the queries never call it, and without a
\* barrier nothing is called.
C10_BarrierOnceBeforeSample ==
    \A t \in Threads :
        /\ (Returned(t) /\ th[t].op = "tic" /\ th[t].exc = "none") => TicTrace(th[t].ev)
        /\ (Returned(t) /\ th[t].op = "toc" /\ th[t].exc = "none") => TocTrace(th[t].ev)
        /\ (Returned(t) /\ th[t].exc = "BarrierError") =>
              /\ barrier = "callable"
              /\ th[t].samp = Absent
              /\ th[t].ev = IF th[t].op = "tic" THEN << "reset", "barrier" >>
                            ELSE << "barrier" >>
        /\ (Returned(t) /\ th[t].exc = "RuntimeError") => th[t].ev = << >>
        /\ th[t].op \notin {"tic", "toc"} =>
              \A i \in 1..Len(th[t].ev) : th[t].ev[i] # "barrier"
        /\ \A i \in 1..Len(th[t].ev) :
              /\ th[t].ev[i] = "barrier" => barrier = "callable"
              /\ (th[t].ev[i] = "time" /\ barrier = "callable") =>
                    (i > 1 /\ th[t].ev[i - 1] = "barrier")

\* A stop() with a barrier called it once, then sampled, then printed.
C10_Witness ==
    /\ Returned(Main) /\ th[Main].op = "toc" /\ th[Main].exc = "none"
    /\ barrier = "callable"
    /\ th[Main].ev = << "barrier", "time", "print" >>

\* C11: when the barrier raises in start() or stop(), the call ends there
\* with the barrier's error: it takes no sample and does not return
\* normally, and nothing else ends a call with that error.  When the call
\* was made by the with statement (on entry or on release), that same error
\* is what the with statement hands to its caller.
C11_BarrierErrorPropagates ==
    \A t \in Threads :
        /\ th[t].braised =>
              /\ th[t].pc = "idle"
              /\ th[t].op \in {"tic", "toc"}
              /\ th[t].exc = "BarrierError"
              /\ th[t].samp = Absent
              /\ th[t].scope = "outside" \/ th[t].wexc = "none"
              /\ th[t].wexc \in {"none", "BarrierError"}
        /\ (Returned(t) /\ th[t].exc = "BarrierError") => th[t].braised
        /\ th[t].wexc = "BarrierError" => th[t].braised

\* The barrier raised in the stop() run on release of a with statement
\* whose block had raised: the barrier's error reached the caller.
C11_Witness ==
    /\ Left(Main) /\ th[Main].body = "raised" /\ th[Main].op = "toc"
    /\ th[Main].braised /\ th[Main].exc = "BarrierError"
    /\ th[Main].wexc = "BarrierError"

Queries == {"elapsed", "float", "str", "is_started", "is_ended"}

\* C12: the elapsed query, the two status queries, the numeric and the
\* string conversion leave start_time and end_time as they found them,
\* also when they fail, and print nothing.  The status queries succeed in
\* every state: is_started is true exactly when start_time is present
\* (Running, Stopped), is_ended exactly when both samples are (Stopped).
C12_QueriesDoNotMutate ==
    \A t \in Threads :
        (Returned(t) /\ th[t].op \in Queries) =>
            /\ start_time = th[t].st0
            /\ end_time = th[t].et0
            /\ out = th[t].out0
            /\ th[t].op = "is_started" =>
                  /\ th[t].exc = "none"
                  /\ th[t].flag = (th[t].st0 # Absent)
            /\ th[t].op = "is_ended" =>
                  /\ th[t].exc = "none"
                  /\ th[t].flag = (th[t].st0 # Absent /\ th[t].et0 # Absent)

\* An elapsed query on a Running timer, the clock past start_time, returned
\* and the timer is still Running with the same start_time.
C12_Witness ==
    /\ Returned(Main) /\ th[Main].op = "elapsed" /\ th[Main].exc = "none"
    /\ th[Main].st0 # Absent /\ th[Main].et0 = Absent
    /\ th[Main].val > 0
    /\ start_time = th[Main].st0 /\ end_time = Absent

\* What __str__ must return for a started timer whose elapsed value is e:
\* the text of default_msg, six decimals, without the final newline.
DefaultText(e) ==
    << "Elapsed time is " >> \o FormatFixed(e, 0, 6) \o << " seconds." >>

\* C13: string conversion never fails.  In Idle it returns the "not yet
\* started" text; in Running or Stopped it returns the default message,
\* whatever the timer's own template is, with the current elapsed value
\* (live in Running, end_time - start_time in Stopped) and no final newline.
C13_StrNeverFails ==
    [][\A t \in Threads :
          to_str(t) =>
              /\ th'[t].exc = "none"
              /\ th'[t].text =
                    IF ~IsStarted THEN << "Timer not yet started." >>
                    ELSE IF IsEnded THEN DefaultText(end_time - start_time)
                    ELSE DefaultText(now - start_time)]_vars

\* A timer with the empty template, Running for two ticks (800 microseconds),
\* was converted to "Elapsed time is 0.000800 seconds."
C13_Witness ==
    /\ Returned(Main) /\ th[Main].op = "str" /\ th[Main].exc = "none"
    /\ msg = empty_msg /\ end_time = Absent /\ Unit = 400
    /\ th[Main].text = << "Elapsed time is ", "0", ".", "0", "0", "0", "8", "0", "0",
                          " seconds." >>

\* A freshly constructed timer with the default template and no barrier,
\* used by one caller through start() and stop() only.
FreshInit ==
    /\ Init
    /\ msg = default_msg
    /\ barrier = "none"

FreshNext ==
    \/ Tick
    \/ call_tic(Main) \/ tic_reset(Main) \/ tic_barrier(Main) \/ tic_sample(Main)
    \/ call_toc(Main) \/ toc_check(Main) \/ toc_barrier(Main)
    \/ toc_sample(Main) \/ toc_print(Main)

\* What the module-level calls are seen to do: tic() always returns, toc()
\* is rejected exactly when no tic() has stored a start_time, and a toc()
\* that returns has printed the default message for end_time - start_time;
\* no barrier is ever called.
ModuleCallsSeen ==
    \A t \in Threads :
        /\ (Returned(t) /\ th[t].op = "tic") =>
              th[t].exc = "none" /\ th[t].ev = << "reset", "time" >>
        /\ (Returned(t) /\ th[t].op = "toc" /\ th[t].st0 = Absent) =>
              th[t].exc = "RuntimeError" /\ out = th[t].out0
        /\ (Returned(t) /\ th[t].op = "toc" /\ th[t].st0 # Absent) =>
              /\ th[t].exc = "none"
              /\ th[t].ev = << "time", "print" >>
              /\ start_time = th[t].st0 /\ end_time = th[t].samp
              /\ out = Append(th[t].out0,
                              DefaultText(end_time - start_time) \o << "\n" >>)

\* C14: every run of module-level tic() / toc() calls is a run of start() /
\* stop() calls on one freshly constructed timer with the default template
\* and no barrier: the same transitions, the same rejections, the same
\* reports.
C14_ModuleLevelIsDefaultTimer ==
    /\ FreshInit
    /\ [][FreshNext]_vars
    /\ []ModuleCallsSeen

\* A module-level toc() reported a measurement begun by a second tic(), an
\* earlier one having been reported before: tic and toc share one timer.
C14_Witness ==
    /\ Returned(Main) /\ th[Main].op = "toc" /\ th[Main].exc = "none"
    /\ th[Main].et0 = Absent /\ Len(th[Main].out0) = 1 /\ Len(out) = 2
    /\ tic_samp > 0 /\ end_time > start_time
    /\ out[2] = DefaultText(end_time - tic_samp) \o << "\n" >>

\* The three states of the timer.
Idle == start_time = Absent /\ end_time = Absent
Running == start_time # Absent /\ end_time = Absent
Stopped == start_time # Absent /\ end_time # Absent

\* C15: under single-threaded use, whenever no call is in progress (after
\* any calls of start(), stop(), reset() and the queries, failed ones
\* included) the timer is Idle, Running or Stopped: end_time is never
\* present without start_time.
C15_ThreeStates ==
    (\A t \in Threads : th[t].pc = "idle") =>
        /\ Idle \/ Running \/ Stopped
        /\ ~(end_time # Absent /\ start_time = Absent)

\* A timer with a barrier that had reported a measurement went back to Idle
\* (by a reset, or a start() whose barrier raised) and a stop() was then
\* rejected: the timer is Idle, not half set.
C15_Witness ==
    /\ Returned(Main) /\ th[Main].op = "toc" /\ th[Main].exc = "RuntimeError"
    /\ barrier = "callable" /\ Len(out) >= 1 /\ tic_samp # Absent
    /\ Idle

\* C16: when the barrier raises in start(), the timer is Idle whatever it
\* was before: the earlier samples are gone and no start_time is stored, so
\* an elapsed query or a stop() made next is rejected.
C16_FailedStartLeavesIdle ==
    \A t \in Threads :
        /\ (Returned(t) /\ th[t].op = "tic" /\ th[t].exc = "BarrierError") =>
              /\ Idle
              /\ ElapsedOf(start_time, end_time, now).exc = "RuntimeError"
              /\ ~IsStarted
        /\ (th[t].op = "tic" /\ th[t].pc \in {"tic_barrier", "tic_sample"}) => Idle

\* The barrier raised in a start() made on a Stopped timer that had measured
\* a non-zero time: that measurement is gone.
C16_Witness ==
    /\ Returned(Main) /\ th[Main].op = "tic" /\ th[Main].exc = "BarrierError"
    /\ th[Main].st0 # Absent /\ th[Main].et0 > th[Main].st0
    /\ Idle

\* C17: when the barrier raises in stop(), the call changes nothing: the
\* timer keeps the start_time and the end_time (present or absent) it had
\* when stop() was called, and nothing is printed.
C17_FailedStopChangesNothing ==
    \A t \in Threads :
        (Returned(t) /\ th[t].op = "toc" /\ th[t].exc = "BarrierError") =>
            /\ th[t].st0 # Absent
            /\ start_time = th[t].st0
            /\ end_time = th[t].et0
            /\ out = th[t].out0
            /\ \A i \in 1..Len(th[t].ev) : th[t].ev[i] \notin {"time", "print"}

\* The barrier raised in a stop() made on a Stopped timer after the clock
\* had moved on: the earlier end_time is still there.
C17_Witness ==
    /\ Returned(Main) /\ th[Main].op = "toc" /\ th[Main].exc = "BarrierError"
    /\ th[Main].et0 # Absent /\ end_time = th[Main].et0 /\ now > end_time
    /\ start_time = th[Main].st0

\* Thread u is inside start(), past its reset and before its sample.
InsideStart(u) == th[u].op = "tic" /\ th[u].pc \in {"tic_barrier", "tic_sample"}

\* C18: with two threads on one timer, a stop() that has passed its
\* is_started check can still fail with the invalid-state error, at its
\* report: this happens only when start_time has been cleared since the
\* check, by the start() of the other thread, which is then still between
\* its reset and its sample.  (The witness is the execution the claim
\* describes; it ends in a state that C15 excludes for one thread.)
C18_StopFailsInsideOthersStart ==
    [][\A t \in Threads :
          (toc_print(t) /\ th'[t].exc = "RuntimeError") =>
              /\ start_time = Absent
              /\ th[t].samp # Absent
              /\ \E u \in Threads \ {t} : InsideStart(u)]_vars

\* stop() was called on a started timer and passed its check, the other
\* thread's start() cleared the samples, stop() stored end_time and then
\* failed with the invalid-state error: end_time is present without
\* start_time.
C18_Witness ==
    /\ Returned(Main) /\ th[Main].op = "toc" /\ th[Main].exc = "RuntimeError"
    /\ th[Main].st0 # Absent /\ th[Main].samp # Absent
    /\ InsideStart(Other)
    /\ end_time = th[Main].samp /\ start_time = Absent

====
